---- MODULE Spec2Model ----
(***************************************************************************)
(* A model of the interactive shell: the word splitter (src/src/split.rs), *)
(* the redirection parser, the pipeline loop and the REPL of               *)
(* src/src/main.rs, and the builtins of src/src/builtin.rs.                *)
(*                                                                         *)
(* Text is modelled as sequences of one-character strings, so that the    *)
(* splitter, the joins and the line reader act on characters as the code  *)
(* does.                                                                   *)
(***************************************************************************)
EXTENDS Integers, Sequences, FiniteSets, TLC

VARIABLES
  pc,                        \* where main is: "read", "exec", "reap", "reap_rest",
                             \* "loop", "exited", "panicked", "blocked"
  termios,                   \* the c_lflag bits the terminal has now
  original_termios,          \* the c_lflag bits of the snapshot
  control_flow,              \* State.control_flow
  history,                   \* State.history
  history_append_position,   \* State.history_append_position
  cwd,                       \* the current directory of the process
  fs,                        \* the files: absolute path -> contents
  input,                     \* the line handle_input returned
  commands,                  \* the segments of input not yet taken
  stdin,                     \* the pipe the next command reads, 0 for None
  pipe_reader,               \* the pipe whose read end main holds
  pipe_writer,               \* the pipe whose write end main holds
  pipes_created,             \* the calls of std::io::pipe for this line
  pipe_fill,                 \* the bytes held in each pipe of this line
  child_handles,             \* the children spawned for this line
  stages,                    \* the commands run for this line with their streams
  ev,                        \* what the last step did
  sp_in,                     \* split: the argument s
  sp_out,                    \* split: the value returned, or Pending before the call
  sp_at,                     \* split: state, words, word and the position in s
  rd_in,                     \* parse_reditections: the argument vector passed in
  rd_out,                    \* parse_reditections: the value returned, or Pending
  hist_in,                   \* history builtin: the history in memory and the number given
  hist_out,                  \* history builtin: how far the calls went and the State left
  editor,                    \* handle_input: input, cursor_position, tab_count and where it is
  screen,                    \* the terminal: the column of its cursor and its insert mode
  key_log,                   \* handle_input: the last two keys read, the latest first
  keys_read                  \* handle_input: the number of keys read

shell_vars == <<pc, termios, original_termios, control_flow, history,
                history_append_position, cwd, fs, input, commands, stdin, pipe_reader,
                pipe_writer, pipes_created, pipe_fill, child_handles, stages, ev>>
split_vars == <<sp_in, sp_out, sp_at>>
redir_vars == <<rd_in, rd_out>>
hist_vars == <<hist_in, hist_out>>
edit_vars == <<editor, screen, key_log, keys_read>>
pure_vars == <<split_vars, redir_vars, hist_vars, edit_vars>>
vars == <<shell_vars, pure_vars>>

----------------------------------------------------------------------------
(* Characters *)

SQ == "'"
DQ == "\""
BSL == "\\"
NL == "\n"
SP == " "
TAB == "\t"
\* The grave accent, which a string of this language cannot hold
BQ == "<grave>"

\* char::is_whitespace, on the characters of the model's alphabets
is_whitespace(c) == c \in {SP, NL, TAB, "\r"}

\* What chars.next() returns at the end of the string (never a character)
EndOfInput == "<end>"
Pending == [pending |-> TRUE]

\* All sequences over alphabet S of length at most n
SeqsUpTo(S, n) == UNION {[1..k -> S] : k \in 0..n}

----------------------------------------------------------------------------
(* split.rs *)

ParseError == [ok |-> FALSE]
Ok(v) == [ok |-> TRUE, val |-> v]

\* A variant of BackslashAtEnd: a trailing backslash rejected
BackslashAtEnd_Rejected(words, word) == ParseError

\* Backslash + end of input: push a literal backslash and the word, accept
BackslashAtEnd(words, word) == Ok(Append(words, Append(word, BSL)))

\* What one pass of the loop of split leaves: the next state with the words
\* and the word so far, or the value split returns
SplitTo(state, words, word) == [done |-> FALSE, state |-> state, words |-> words, word |-> word]
SplitEnd(result) == [done |-> TRUE, result |-> result]

\* One pass of the loop of split: c is chars.next(), EndOfInput at the end of s.
SplitStep(state, words, word, c) ==
  CASE state = "Delimiter" ->
         IF c = EndOfInput THEN SplitEnd(Ok(words))
         ELSE IF c = SQ THEN SplitTo("SingleQuoted", words, word)
         ELSE IF c = DQ THEN SplitTo("DoubleQuoted", words, word)
         ELSE IF c = BSL THEN SplitTo("Backslash", words, word)
         ELSE IF is_whitespace(c) THEN SplitTo("Delimiter", words, word)
         ELSE SplitTo("Unquoted", words, Append(word, c))
    [] state = "Unquoted" ->
         IF c = EndOfInput THEN SplitEnd(Ok(Append(words, word)))
         ELSE IF c = SQ THEN SplitTo("SingleQuoted", words, word)
         ELSE IF c = DQ THEN SplitTo("DoubleQuoted", words, word)
         ELSE IF c = BSL THEN SplitTo("Backslash", words, word)
         ELSE IF is_whitespace(c) THEN SplitTo("Delimiter", Append(words, word), <<>>)
         ELSE SplitTo("Unquoted", words, Append(word, c))
    [] state = "SingleQuoted" ->
         IF c = EndOfInput THEN SplitEnd(ParseError)
         ELSE IF c = SQ THEN SplitTo("Unquoted", words, word)
         ELSE SplitTo("SingleQuoted", words, Append(word, c))
    [] state = "DoubleQuoted" ->
         IF c = EndOfInput THEN SplitEnd(ParseError)
         ELSE IF c = DQ THEN SplitTo("Unquoted", words, word)
         ELSE SplitTo("DoubleQuoted", words, Append(word, c))
    [] state = "Backslash" ->
         IF c = EndOfInput THEN SplitEnd(BackslashAtEnd(words, word))
         ELSE IF c = NL THEN SplitTo("Delimiter", words, word)
         ELSE SplitTo("Unquoted", words, Append(word, c))

\* chars.next() at position i of s
CharAt(s, i) == IF i > Len(s) THEN EndOfInput ELSE s[i]

\* The loop of split from position i of s on
RECURSIVE SplitLoop(_, _, _, _, _)
SplitLoop(state, words, word, s, i) ==
  LET r == SplitStep(state, words, word, CharAt(s, i))
  IN IF r.done THEN r.result ELSE SplitLoop(r.state, r.words, r.word, s, i + 1)

split(s) == SplitLoop("Delimiter", <<>>, <<>>, s, 1)

----------------------------------------------------------------------------
(* The file system the shell sees: the directories that exist, and a      *)
(* function from the absolute paths of the files that exist to their      *)
(* contents (a sequence of characters).                                    *)

Root == <<"/">>
Home == <<"/", "h">>
ExistingDirs == {Root, Home}

Max(S) == CHOOSE m \in S : \A k \in S : k <= m

\* A path as the process resolves it against its current directory
Abs(dir, w) ==
  IF w # <<>> /\ w[1] = "/" THEN w
  ELSE IF dir = Root THEN Root \o w
  ELSE dir \o <<"/">> \o w

Parent(p) ==
  LET m == Max({i \in 1..Len(p) : p[i] = "/"})
  IN IF m = 1 THEN Root ELSE SubSeq(p, 1, m - 1)

\* A file can be created at p when p names no directory and its directory exists
Creatable(p) ==
  /\ p \notin ExistingDirs
  /\ p[Len(p)] # "/"
  /\ Parent(p) \in ExistingDirs

EmptyFs == [p \in {} |-> <<>>]

Put(files, p, data) == [q \in DOMAIN files \cup {p} |-> IF q = p THEN data ELSE files[q]]

\* File::create: create or truncate
CreateTruncate(files, p) == Put(files, p, <<>>)

\* OpenOptions::new().append(true).create(true).open: create, keep the contents
OpenAppend(files, p) == IF p \in DOMAIN files THEN files ELSE Put(files, p, <<>>)

\* write_all on a file handle: the bytes go after what the file holds
WriteFile(files, p, data) == Put(files, p, files[p] \o data)

----------------------------------------------------------------------------
(* main.rs: CommandOut, CommandErr and parse_reditections *)

StdStream == [kind |-> "Std", path |-> <<>>, id |-> 0]
FileSink(p) == [kind |-> "File", path |-> p, id |-> 0]
PipeSink(n) == [kind |-> "Pipe", path |-> <<>>, id |-> n]

\* A variant of RedirectKind: `2>>` is not matched and falls to the `_` arm
RedirectKind_No2Append(arg) ==
  CASE arg \in {<<">">>, <<"1", ">">>} -> [stream |-> "stdout", append |-> FALSE]
    [] arg = <<"2", ">">> -> [stream |-> "stderr", append |-> FALSE]
    [] arg \in {<<">", ">">>, <<"1", ">", ">">>} -> [stream |-> "stdout", append |-> TRUE]
    [] OTHER -> [stream |-> "none", append |-> FALSE]

\* The arms of the match on arg.as_str()
RedirectKind(arg) ==
  CASE arg \in {<<">">>, <<"1", ">">>} -> [stream |-> "stdout", append |-> FALSE]
    [] arg = <<"2", ">">> -> [stream |-> "stderr", append |-> FALSE]
    [] arg \in {<<">", ">">>, <<"1", ">", ">">>} -> [stream |-> "stdout", append |-> TRUE]
    [] arg = <<"2", ">", ">">> -> [stream |-> "stderr", append |-> TRUE]
    [] OTHER -> [stream |-> "none", append |-> FALSE]

\* The while loop of parse_reditections from args[i] on.  The files opened
\* before an error stay created: fs is returned in both cases.
RECURSIVE RedirLoop(_, _, _, _, _, _, _)
RedirLoop(args, i, stdout, stderr, actual_args, dir, files) ==
  IF i > Len(args)
  THEN [ok |-> TRUE, args |-> actual_args, stdout |-> stdout, stderr |-> stderr, fs |-> files]
  ELSE
    LET k == RedirectKind(args[i])
        failed == [ok |-> FALSE, args |-> args, stdout |-> stdout, stderr |-> stderr, fs |-> files]
    IN IF k.stream = "none"
       THEN RedirLoop(args, i + 1, stdout, stderr, Append(actual_args, args[i]), dir, files)
       ELSE IF i + 1 > Len(args) THEN failed           \* args.next().ok_or(())?
       ELSE LET p == Abs(dir, args[i + 1])
            IN IF args[i + 1] = <<>> \/ ~Creatable(p) THEN failed    \* map_err(|_| ())?
               ELSE LET fs2 == IF k.append THEN OpenAppend(files, p) ELSE CreateTruncate(files, p)
                    IN IF k.stream = "stdout"
                       THEN RedirLoop(args, i + 2, FileSink(p), stderr, actual_args, dir, fs2)
                       ELSE RedirLoop(args, i + 2, stdout, FileSink(p), actual_args, dir, fs2)

parse_reditections(args, dir, files) ==
  RedirLoop(args, 1, StdStream, StdStream, <<>>, dir, files)

----------------------------------------------------------------------------
(* Text helpers *)

RECURSIVE Join(_, _)
\* [String]::join(sep)
Join(ss, sep) ==
  IF ss = <<>> THEN <<>>
  ELSE IF Len(ss) = 1 THEN ss[1]
  ELSE ss[1] \o sep \o Join(Tail(ss), sep)

\* str::lines, on text without carriage returns: the pieces between line
\* feeds, the piece after the last line feed only when it is not empty
RECURSIVE LinesLoop(_, _, _, _)
LinesLoop(data, i, cur, acc) ==
  IF i > Len(data) THEN (IF cur = <<>> THEN acc ELSE Append(acc, cur))
  ELSE IF data[i] = NL THEN LinesLoop(data, i + 1, <<>>, Append(acc, cur))
  ELSE LinesLoop(data, i + 1, Append(cur, data[i]), acc)

Lines(data) == LinesLoop(data, 1, <<>>, <<>>)

\* str::trim
RECURSIVE Trim(_)
Trim(w) ==
  IF w = <<>> THEN w
  ELSE IF is_whitespace(w[1]) THEN Trim(Tail(w))
  ELSE IF is_whitespace(w[Len(w)]) THEN Trim(SubSeq(w, 1, Len(w) - 1))
  ELSE w

\* str::replace of the one-character pattern c by the text by
RECURSIVE Replace(_, _, _)
Replace(w, c, by) ==
  IF w = <<>> THEN <<>>
  ELSE (IF w[1] = c THEN by ELSE <<w[1]>>) \o Replace(Tail(w), c, by)

\* str::strip_prefix(prefix).is_some()
IsPrefix(prefix, w) ==
  /\ Len(prefix) <= Len(w)
  /\ SubSeq(w, 1, Len(prefix)) = prefix

DigitChars == <<"0", "1", "2", "3", "4", "5", "6", "7", "8", "9">>

\* The decimal digits of a natural number, as Display prints it
RECURSIVE Decimal(_)
Decimal(n) ==
  IF n < 10 THEN <<DigitChars[n + 1]>>
  ELSE Decimal(n \div 10) \o <<DigitChars[(n % 10) + 1]>>

\* format!("{:>5}", n): right-aligned in a field of five
PadLeft5(w) == [i \in 1..(IF Len(w) < 5 THEN 5 - Len(w) ELSE 0) |-> SP] \o w

DigitValue(c) == (CHOOSE i \in 1..10 : DigitChars[i] = c) - 1

RECURSIVE DecimalValue(_)
DecimalValue(w) ==
  IF w = <<>> THEN 0
  ELSE 10 * DecimalValue(SubSeq(w, 1, Len(w) - 1)) + DigitValue(w[Len(w)])

\* str::parse::<usize>: an optional `+` and at least one digit
ParsesAsUsize(w) ==
  LET d == IF w # <<>> /\ w[1] = "+" THEN Tail(w) ELSE w
  IN d # <<>> /\ \A i \in 1..Len(d) : \E k \in 1..10 : DigitChars[k] = d[i]

ParseUsize(w) == DecimalValue(IF w[1] = "+" THEN Tail(w) ELSE w)

----------------------------------------------------------------------------
(* The environment: PATH and HOME *)

\* The directories of PATH with the regular files in them and whether a
\* file has an execute bit (p, q, zza and zzb have it, r has not)
PathEntries ==
  << [dir |-> <<"/", "b">>,
      files |-> << [name |-> <<"p">>, exec |-> TRUE],
                   [name |-> <<"r">>, exec |-> FALSE],
                   [name |-> <<"q">>, exec |-> TRUE],
                   [name |-> <<"z", "z", "a">>, exec |-> TRUE],
                   [name |-> <<"z", "z", "b">>, exec |-> TRUE] >>] >>

NoPath == [some |-> FALSE, v |-> <<>>]
Some(v) == [some |-> TRUE, v |-> v]

\* search: the first executable file named command in the directories of PATH
search(command) ==
  LET hits == {<<i, j>> \in (1..Len(PathEntries)) \X (1..5) :
                 /\ j <= Len(PathEntries[i].files)
                 /\ PathEntries[i].files[j].name = command
                 /\ PathEntries[i].files[j].exec}
  IN IF hits = {} THEN NoPath
     ELSE LET h == CHOOSE h \in hits : \A g \in hits :
                     h[1] < g[1] \/ (h[1] = g[1] /\ h[2] <= g[2])
          IN Some(PathEntries[h[1]].dir \o <<"/">> \o PathEntries[h[1]].files[h[2]].name)

\* executables: the names of the executable files on PATH
executables ==
  {PathEntries[i].files[j].name : <<i, j>> \in
     {x \in (1..Len(PathEntries)) \X (1..5) :
        x[2] <= Len(PathEntries[x[1]].files) /\ PathEntries[x[1]].files[x[2]].exec}}

----------------------------------------------------------------------------
(* builtin.rs *)

TO_STRING == <<<<"e", "x", "i", "t">>, <<"t", "y", "p", "e">>, <<"e", "c", "h", "o">>,
               <<"p", "w", "d">>, <<"c", "d">>, <<"h", "i", "s", "t", "o", "r", "y">>>>

BuiltinNames == {TO_STRING[i] : i \in 1..6}

\* CommandKind::parse
CommandKind_parse(command) ==
  LET c == Trim(command)
  IN IF c \in BuiltinNames THEN [kind |-> "Builtin", name |-> c]
     ELSE IF search(c).some THEN [kind |-> "Program", name |-> search(c).v]
     ELSE [kind |-> "NotFound", name |-> c]

\* The messages of the errors _run returns
\* "expected <history_file>"
E_expected_file == <<"e", "x", "p", "e", "c", "t", "e", "d", " ", "<", "h", "i", "s", "t", "o", "r", "y", "_", "f", "i", "l", "e", ">">>
\* "options -w and -a are mutually exclusive"
E_exclusive == <<"o", "p", "t", "i", "o", "n", "s", " ", "-", "w", " ", "a", "n", "d", " ", "-", "a", " ", "a", "r", "e", " ", "m", "u", "t", "u", "a", "l", "l", "y", " ", "e", "x", "c", "l", "u", "s", "i", "v", "e">>
\* "could not parse number `{val}`"
E_parse(val) == <<"c", "o", "u", "l", "d", " ", "n", "o", "t", " ", "p", "a", "r", "s", "e", " ", "n", "u", "m", "b", "e", "r", " ", BQ>> \o val \o <<BQ>>
\* "unexpected argument `{e}`"
E_unexpected_arg(e) == <<"u", "n", "e", "x", "p", "e", "c", "t", "e", "d", " ", "a", "r", "g", "u", "m", "e", "n", "t", " ", BQ>> \o e \o <<BQ>>
\* "unexpected argument {n}"
E_unexpected_n(n) == <<"u", "n", "e", "x", "p", "e", "c", "t", "e", "d", " ", "a", "r", "g", "u", "m", "e", "n", "t", " ">> \o Decimal(n)
\* "unable to read file `{path}`"
E_read(path) == <<"u", "n", "a", "b", "l", "e", " ", "t", "o", " ", "r", "e", "a", "d", " ", "f", "i", "l", "e", " ", BQ>> \o path \o <<BQ>>
\* "unable to open file `{path}`"
E_open(path) == <<"u", "n", "a", "b", "l", "e", " ", "t", "o", " ", "o", "p", "e", "n", " ", "f", "i", "l", "e", " ", BQ>> \o path \o <<BQ>>
\* "{path}: No such file or directory"
E_no_such(path) == path \o <<":", " ", "N", "o", " ", "s", "u", "c", "h", " ", "f", "i", "l", "e", " ", "o", "r", " ", "d", "i", "r", "e", "c", "t", "o", "r", "y">>

\* What _run returns: Ok(()) or Err(e), with the State, the current directory
\* and the files as it leaves them and what it wrote to stdout and stderr.
\* status "panic" is an abort inside _run.
Returned(status, e, sh, out, err) ==
  [status |-> status, e |-> e, sh |-> sh, out |-> out, err |-> err]

\* A variant of RunExit: the control flow is left as it is
RunExit_KeepsRepl(sh, args) == Returned("ok", <<>>, sh, <<>>, <<>>)

\* Builtin::Exit
RunExit(sh, args) ==
  Returned("ok", <<>>, [sh EXCEPT !.control_flow = "Exit"], <<>>, <<>>)

\* Builtin::Type: one line per argument
RECURSIVE TypeLines(_, _)
TypeLines(args, stream) ==
  IF args = <<>> THEN <<>>
  ELSE LET k == CommandKind_parse(args[1])
           line == CASE k.kind = "Builtin" -> k.name \o <<" ", "i", "s", " ", "a", " ", "s", "h", "e", "l", "l", " ", "b", "u", "i", "l", "t", "i", "n">> \o <<NL>>
                     [] k.kind = "Program" -> k.name \o <<NL>>
                     [] OTHER -> k.name \o <<":", " ", "n", "o", "t", " ", "f", "o", "u", "n", "d">> \o <<NL>>
       IN (IF (k.kind = "NotFound") = (stream = "stderr") THEN line ELSE <<>>)
          \o TypeLines(Tail(args), stream)

RunType(sh, args) ==
  Returned("ok", <<>>, sh, TypeLines(args, "stdout"), TypeLines(args, "stderr"))

\* Builtin::Echo
RunEcho(sh, args) == Returned("ok", <<>>, sh, Join(args, <<SP>>) \o <<NL>>, <<>>)

\* Builtin::Pwd
RunPwd(sh, args) == Returned("ok", <<>>, sh, sh.cwd \o <<NL>>, <<>>)

\* Builtin::Cd, with HOME set to Home
RunCd(sh, args) ==
  LET path == Replace(IF args = <<>> THEN <<"~">> ELSE args[1], "~", Home)
  IN IF path # <<>> /\ Abs(sh.cwd, path) \in ExistingDirs
     THEN Returned("ok", <<>>, [sh EXCEPT !.cwd = Abs(sh.cwd, path)], <<>>, <<>>)
     ELSE Returned("err", E_no_such(path), sh, <<>>, <<>>)

\* The options of `history`: Option<String> for -r, -w, -a and Option<usize> n
NoFileArg == [some |-> FALSE, v |-> <<>>]
NoNumber == [some |-> FALSE, v |-> 0]
NoOptions ==
  [ok |-> TRUE, e |-> <<>>, r |-> NoFileArg, w |-> NoFileArg, a |-> NoFileArg, n |-> NoNumber]

\* The while loop over the arguments of `history`, from args[i] on
RECURSIVE HistoryArgs(_, _, _)
HistoryArgs(args, i, o) ==
  IF i > Len(args) THEN o
  ELSE LET arg == args[i]
           missing == [o EXCEPT !.ok = FALSE, !.e = E_expected_file]
       IN CASE arg = <<"-", "r">> ->
                 IF i + 1 > Len(args) THEN missing
                 ELSE HistoryArgs(args, i + 2, [o EXCEPT !.r = Some(args[i + 1])])
            [] arg = <<"-", "w">> ->
                 IF i + 1 > Len(args) THEN missing
                 ELSE HistoryArgs(args, i + 2, [o EXCEPT !.w = Some(args[i + 1])])
            [] arg = <<"-", "a">> ->
                 IF i + 1 > Len(args) THEN missing
                 ELSE HistoryArgs(args, i + 2, [o EXCEPT !.a = Some(args[i + 1])])
            [] OTHER ->
                 IF ~ParsesAsUsize(arg)
                 THEN [o EXCEPT !.ok = FALSE, !.e = E_parse(arg)]
                 ELSE IF i + 1 <= Len(args)
                 THEN [o EXCEPT !.ok = FALSE, !.e = E_unexpected_arg(args[i + 1])]
                 ELSE [o EXCEPT !.n = [some |-> TRUE, v |-> ParseUsize(arg)]]

\* history -r: the lines of the file go after the entries in memory
HistoryRead(sh, path, n) ==
  IF n.some THEN Returned("err", E_unexpected_n(n.v), sh, <<>>, <<>>)
  ELSE IF Abs(sh.cwd, path) \notin DOMAIN sh.fs
  THEN Returned("err", E_read(path), sh, <<>>, <<>>)
  ELSE Returned("ok", <<>>,
                [sh EXCEPT !.history = sh.history \o Lines(sh.fs[Abs(sh.cwd, path)])],
                <<>>, <<>>)

\* A variant of AppendPositionAfter: the cursor moved on by the whole length
AppendPositionAfter_AddsLen(hist, position) == position + Len(hist)

\* The value `history -a` assigns to history_append_position:
\* state.history[state.history_append_position..].len()
AppendPositionAfter(hist, position) ==
  Len(SubSeq(hist, position + 1, Len(hist)))

\* history -a: the cursor is assigned before the file is opened
HistoryAppend(sh, path, n) ==
  IF n.some THEN Returned("err", E_unexpected_n(n.v), sh, <<>>, <<>>)
  ELSE IF sh.history_append_position > Len(sh.history)
  THEN Returned("panic", <<>>, sh, <<>>, <<>>)      \* slice start out of range
  ELSE IF path = <<>> \/ ~Creatable(Abs(sh.cwd, path))
  THEN Returned("err", E_open(path),
                [sh EXCEPT !.history_append_position =
                             AppendPositionAfter(sh.history, sh.history_append_position)],
                <<>>, <<>>)
  ELSE Returned("ok", <<>>,
                [sh EXCEPT !.history_append_position =
                             AppendPositionAfter(sh.history, sh.history_append_position),
                           !.fs = WriteFile(OpenAppend(sh.fs, Abs(sh.cwd, path)),
                                            Abs(sh.cwd, path),
                                            Join(SubSeq(sh.history,
                                                        sh.history_append_position + 1,
                                                        Len(sh.history)), <<NL>>) \o <<NL>>)],
                <<>>, <<>>)

\* The entries shown: iter().enumerate().rev().take(n).rev(), each with its
\* index in the history
Shown(hist, n) ==
  [j \in 1..(IF n < Len(hist) THEN n ELSE Len(hist)) |->
     [i |-> Len(hist) - (IF n < Len(hist) THEN n ELSE Len(hist)) + j,
      s |-> hist[Len(hist) - (IF n < Len(hist) THEN n ELSE Len(hist)) + j]]]

EntriesOf(shown) == [j \in 1..Len(shown) |-> shown[j].s]
NumberedOf(shown) ==
  [j \in 1..Len(shown) |-> PadLeft5(Decimal(shown[j].i)) \o <<SP, SP>> \o shown[j].s]

\* history -w: the file is truncated and holds the entries shown
HistoryWrite(sh, path, n) ==
  IF path = <<>> \/ ~Creatable(Abs(sh.cwd, path))
  THEN Returned("err", E_open(path), sh, <<>>, <<>>)
  ELSE Returned("ok", <<>>,
                [sh EXCEPT !.fs = WriteFile(CreateTruncate(sh.fs, Abs(sh.cwd, path)),
                                            Abs(sh.cwd, path),
                                            Join(EntriesOf(Shown(sh.history, n)), <<NL>>)
                                              \o <<NL>>)],
                <<>>, <<>>)

\* history [n]: the entries shown, numbered
HistoryShow(sh, n) ==
  Returned("ok", <<>>, sh, Join(NumberedOf(Shown(sh.history, n)), <<NL>>) \o <<NL>>, <<>>)

\* Builtin::History, once the options o are parsed
HistoryWith(sh, o) ==
  IF ~o.ok THEN Returned("err", o.e, sh, <<>>, <<>>)
  ELSE IF o.w.some /\ o.a.some THEN Returned("err", E_exclusive, sh, <<>>, <<>>)
  ELSE IF o.r.some THEN HistoryRead(sh, o.r.v, o.n)
  ELSE IF o.a.some THEN HistoryAppend(sh, o.a.v, o.n)
  ELSE IF o.w.some
  THEN HistoryWrite(sh, o.w.v, IF o.n.some THEN o.n.v ELSE Len(sh.history))
  ELSE HistoryShow(sh, IF o.n.some THEN o.n.v ELSE Len(sh.history))

\* Builtin::History
RunHistory(sh, args) == HistoryWith(sh, HistoryArgs(args, 1, NoOptions))

\* Builtin::_run
Builtin__run(name, sh, args) ==
  CASE name = TO_STRING[1] -> RunExit(sh, args)
    [] name = TO_STRING[2] -> RunType(sh, args)
    [] name = TO_STRING[3] -> RunEcho(sh, args)
    [] name = TO_STRING[4] -> RunPwd(sh, args)
    [] name = TO_STRING[5] -> RunCd(sh, args)
    [] name = TO_STRING[6] -> RunHistory(sh, args)

\* A write to a sink: a file sink's bytes go to its file; the bytes written to
\* the terminal or into a pipe leave the model
WriteSink(files, sink, data) ==
  IF sink.kind = "File" /\ data # <<>> THEN WriteFile(files, sink.path, data) ELSE files

\* Builtin::run once _run has returned r: what r wrote goes to the sinks, and
\* "{self}: {e}" goes to stderr when r is an error
Reported(name, stdout, stderr, r) ==
  [r EXCEPT !.sh.fs =
     WriteSink(WriteSink(WriteSink(r.sh.fs, stdout, r.out), stderr, r.err), stderr,
               IF r.status = "err" THEN name \o <<":", SP>> \o r.e \o <<NL>> ELSE <<>>)]

\* Builtin::run
Builtin_run(name, sh, stdout, stderr, args) ==
  Reported(name, stdout, stderr, Builtin__run(name, sh, args))

----------------------------------------------------------------------------
(* main.rs: Key::read_key and handle_input.  The bytes typed are a         *)
(* sequence; the bytes that are no printable character have names.         *)

B_08 == "<08>"
B_7F == "<7f>"
B_0C == "<0c>"
B_04 == "<04>"
B_1B == "<1b>"
CR == "\r"

\* Key::read_key from bytes[i] on: the key, the position after it, and
\* whether the decoder aborted (todo!) or waits for a byte not yet typed
KeyRead(key, ch, next) == [key |-> key, ch |-> ch, next |-> next]

read_key(bytes, i) ==
  LET b == bytes[i]
  IN CASE b \in {B_08, B_7F} -> KeyRead("Backspace", "", i + 1)
       [] b = B_0C -> KeyRead("CtrlL", "", i + 1)
       [] b = B_04 -> KeyRead("CtrlD", "", i + 1)
       [] b = B_1B ->
            IF i + 1 > Len(bytes) THEN KeyRead("blocked", "", i)
            ELSE IF bytes[i + 1] # "[" THEN KeyRead("panic", "", i + 2)
            ELSE IF i + 2 > Len(bytes) THEN KeyRead("blocked", "", i)
            ELSE CASE bytes[i + 2] = "A" -> KeyRead("UpArrow", "", i + 3)
                   [] bytes[i + 2] = "B" -> KeyRead("DownArrow", "", i + 3)
                   [] bytes[i + 2] = "C" -> KeyRead("RightArrow", "", i + 3)
                   [] bytes[i + 2] = "D" -> KeyRead("LeftArrow", "", i + 3)
                   [] bytes[i + 2] = "3" -> KeyRead("Delete", "", i + 3)
                   [] OTHER -> KeyRead("panic", "", i + 3)
       [] b = TAB -> KeyRead("Tab", "", i + 1)
       [] b \in {NL, CR} -> KeyRead("Newline", "", i + 1)
       [] OTHER -> KeyRead("Char", b, i + 1)

\* Vec::insert and Vec::remove
InsertAt(s, k, c) == SubSeq(s, 1, k) \o <<c>> \o SubSeq(s, k + 1, Len(s))
RemoveAt(s, k) == SubSeq(s, 1, k) \o SubSeq(s, k + 2, Len(s))

\* The completions of the Tab arm: what is left of each builtin and
\* executable name that starts with the buffer
Completions(buf) ==
  {SubSeq(x, Len(buf) + 1, Len(x)) : x \in {y \in BuiltinNames \cup executables : IsPrefix(buf, y)}}

\* The longest prefix of completions[0] that starts them all; the code takes the
\* first of the sorted completions, and every choice of it gives the same prefix
CommonPrefix(comps) ==
  LET first == CHOOSE s \in comps : TRUE
      n == Max({i \in 0..Len(first) : \A s \in comps : IsPrefix(SubSeq(first, 1, i), s)})
  IN SubSeq(first, 1, n)

\* The editor: the local variables of handle_input
Editor(buf, cursor_position, tab_count, at) ==
  [input |-> buf, cursor_position |-> cursor_position, tab_count |-> tab_count, at |-> at]

\* The Tab arm
TabKey(ed) ==
  LET tc == (ed.tab_count + 1) % 2
      comps == Completions(ed.input)
      prefix == IF Cardinality(comps) > 1 THEN CommonPrefix(comps) ELSE <<>>
      only == IF Cardinality(comps) = 1 THEN (CHOOSE s \in comps : TRUE) \o <<SP>> ELSE <<>>
  IN Editor(ed.input \o prefix \o only,
            ed.cursor_position + Len(prefix) + Len(only), tc, "editing")

\* A variant of RightOf: the cursor moves right whatever the length
RightOf_Unbounded(cur, len) == cur + 1

\* (cursor_position + 1).min(input.len())
RightOf(cur, len) == IF cur + 1 < len THEN cur + 1 ELSE len

\* One arm of the match on the key; at is "editing", "done" (the loop was
\* left) or "panic"
KeyStep(ed, k) ==
  LET buf == ed.input
      cur == ed.cursor_position
      tc == ed.tab_count
  IN CASE k.key = "Char" ->
            IF cur > Len(buf) THEN Editor(buf, cur, tc, "panic")
            ELSE Editor(InsertAt(buf, cur, k.ch), cur + 1, tc, "editing")
       [] k.key = "RightArrow" -> Editor(buf, RightOf(cur, Len(buf)), tc, "editing")
       [] k.key = "LeftArrow" ->
            Editor(buf, IF cur > 0 THEN cur - 1 ELSE 0, tc, "editing")
       [] k.key = "Backspace" ->
            IF 0 < cur /\ cur <= Len(buf)
            THEN Editor(RemoveAt(buf, cur - 1), cur - 1, tc, "editing")
            ELSE Editor(buf, cur, tc, "editing")
       [] k.key = "Delete" ->
            IF cur < Len(buf)
            THEN Editor(RemoveAt(buf, cur), cur, tc, "editing")
            ELSE Editor(buf, cur, tc, "editing")
       [] k.key = "Newline" -> Editor(buf, cur, tc, "done")
       [] k.key = "Tab" -> TabKey(ed)
       [] k.key = "CtrlL" -> Editor(buf, cur, tc, "editing")
       [] k.key = "CtrlD" -> Editor(TO_STRING[1], cur, tc, "done")
       [] k.key \in {"UpArrow", "DownArrow"} -> Editor(buf, cur, tc, "panic")   \* _ => todo!()
       [] OTHER -> Editor(buf, cur, tc, k.key)          \* read_key aborted or waits

\* The characters of the names, in the order of their codes
CharsInOrder ==
  <<"a", "b", "c", "d", "e", "f", "g", "h", "i", "j", "k", "l", "m", "n", "o", "p", "q",
    "r", "s", "t", "u", "v", "w", "x", "y", "z">>
CharCode(c) == CHOOSE i \in 1..Len(CharsInOrder) : CharsInOrder[i] = c

\* The order of str: by the first character that differs, a prefix first
RECURSIVE StrLess(_, _)
StrLess(a, b) ==
  IF b = <<>> THEN FALSE
  ELSE IF a = <<>> THEN TRUE
  ELSE IF a[1] = b[1] THEN StrLess(Tail(a), Tail(b))
  ELSE CharCode(a[1]) < CharCode(b[1])

\* Vec::from_iter(completions) and completions.sort()
RECURSIVE SortedCompletions(_)
SortedCompletions(comps) ==
  IF comps = {} THEN <<>>
  ELSE <<CHOOSE x \in comps : \A y \in comps \ {x} : StrLess(x, y)>>
         \o SortedCompletions(comps \ {CHOOSE x \in comps : \A y \in comps \ {x} : StrLess(x, y)})

\* The bytes the editor prints
B_07 == "<07>"
CSI_4h == <<B_1B, "[", "4", "h">>
CSI_4l == <<B_1B, "[", "4", "l">>
CSI_C == <<B_1B, "[", "C">>
CSI_D == <<B_1B, "[", "D">>
CSI_1P == <<B_1B, "[", "1", "P">>
CSI_1_1H == <<B_1B, "[", "1", ";", "1", "H">>
CSI_0J == <<B_1B, "[", "0", "J">>
Prompt == <<"$", SP>>

\* The candidate words of the list: input + x for each completion x
CandidateWords(buf, sorted) == [j \in 1..Len(sorted) |-> buf \o sorted[j]]

\* What the Tab arm prints; tc is tab_count after the arm has toggled it
TabOutput(buf, tc, comps) ==
  IF Cardinality(comps) > 1
  THEN IF CommonPrefix(comps) # <<>> THEN CommonPrefix(comps)
       ELSE IF tc = 1 THEN <<B_07>>
       ELSE <<NL>> \o Join(CandidateWords(buf, SortedCompletions(comps)), <<SP, SP>>) \o <<NL>>
              \o Prompt \o buf
  ELSE IF Cardinality(comps) = 1 THEN (CHOOSE x \in comps : TRUE) \o <<SP>>
  ELSE <<B_07>>

\* What one arm of the match on the key prints
KeyOutput(ed, k) ==
  CASE k.key = "Char" -> CSI_4h \o <<k.ch>> \o CSI_4l
    [] k.key = "RightArrow" -> CSI_C
    [] k.key = "LeftArrow" -> CSI_D
    [] k.key = "Backspace" ->
         IF 0 < ed.cursor_position /\ ed.cursor_position <= Len(ed.input)
         THEN <<B_08>> \o CSI_1P ELSE <<>>
    [] k.key = "Delete" -> IF ed.cursor_position < Len(ed.input) THEN CSI_1P ELSE <<>>
    [] k.key = "Newline" -> <<NL>>
    [] k.key = "Tab" -> TabOutput(ed.input, (ed.tab_count + 1) % 2, Completions(ed.input))
    [] k.key = "CtrlL" -> CSI_1_1H \o CSI_0J \o Prompt \o ed.input
    [] k.key = "CtrlD" -> <<NL>>
    [] OTHER -> <<>>

\* The loop of handle_input over the bytes typed, from bytes[i] on
RECURSIVE InputLoop(_, _, _)
InputLoop(ed, bytes, i) ==
  IF i > Len(bytes) THEN [ed EXCEPT !.at = "blocked"]
  ELSE LET k == read_key(bytes, i)
           e == KeyStep(ed, k)
       IN IF e.at = "editing" THEN InputLoop(e, bytes, k.next) ELSE e

\* handle_input: the line returned, unless it aborted or waits for a key
handle_input(bytes) == InputLoop(Editor(<<>>, 0, 0, "editing"), bytes, 1)

\* str::split("|")
RECURSIVE SplitPipeLoop(_, _, _, _)
SplitPipeLoop(line, i, cur, acc) ==
  IF i > Len(line) THEN Append(acc, cur)
  ELSE IF line[i] = "|" THEN SplitPipeLoop(line, i + 1, <<>>, Append(acc, cur))
  ELSE SplitPipeLoop(line, i + 1, Append(cur, line[i]), acc)

SplitPipe(line) == SplitPipeLoop(line, 1, <<>>, <<>>)

----------------------------------------------------------------------------
(* main.rs: main.  State (builtin.rs) is the shell state the builtins     *)
(* take; main passes it where it passes control_flow.                      *)

\* The bound on the entries of the history in memory
MaxHistory == 3

\* `history -a f`
L_history_a_f == <<"h", "i", "s", "t", "o", "r", "y", " ", "-", "a", " ", "f">>
\* `history -a n/f`
L_history_a_nf == <<"h", "i", "s", "t", "o", "r", "y", " ", "-", "a", " ", "n", "/", "f">>
\* `history -r f`
L_history_r_f == <<"h", "i", "s", "t", "o", "r", "y", " ", "-", "r", " ", "f">>
\* `history -r f -w g`
L_history_r_f_w_g == <<"h", "i", "s", "t", "o", "r", "y", " ", "-", "r", " ", "f", " ", "-", "w", " ", "g">>
\* `history -r f 1`
L_history_r_f_1 == <<"h", "i", "s", "t", "o", "r", "y", " ", "-", "r", " ", "f", " ", "1">>
\* `history x`
L_history_x == <<"h", "i", "s", "t", "o", "r", "y", " ", "x">>
\* `exit`
L_exit == <<"e", "x", "i", "t">>
\* `exit | echo 'x`
L_exit_pipe_quote == <<"e", "x", "i", "t", " ", "|", " ", "e", "c", "h", "o", " ", "'", "x">>
\* `p > f | zz | q >> g`
L_pipeline == <<"p", " ", ">", " ", "f", " ", "|", " ", "z", "z", " ", "|", " ", "q", " ", ">", ">", " ", "g">>
\* `history`
L_history == <<"h", "i", "s", "t", "o", "r", "y">>
\* `history -w g 1`
L_history_w_g_1 == <<"h", "i", "s", "t", "o", "r", "y", " ", "-", "w", " ", "g", " ", "1">>
\* `echo >`
L_echo_gt == <<"e", "c", "h", "o", " ", ">">>
\* `cd n`
L_cd_n == <<"c", "d", " ", "n">>
\* `exit | p`
L_exit_pipe_p == <<"e", "x", "i", "t", " ", "|", " ", "p">>
\* `exit | echo >`
L_exit_pipe_echo_gt == <<"e", "x", "i", "t", " ", "|", " ", "e", "c", "h", "o", " ", ">">>
\* `echo aaaaa | p`: the output of echo is more than a pipe holds
L_echo_long_pipe_p == <<"e", "c", "h", "o", " ", "a", "a", "a", "a", "a", " ", "|", " ", "p">>
\* `pwd | p`
L_pwd_pipe_p == <<"p", "w", "d", " ", "|", " ", "p">>
\* `zz |`
L_zz_pipe_empty == <<"z", "z", " ", "|">>

\* What the user may type at a prompt: a line and Newline, `x` and Ctrl-D,
\* `ex` completed by Tab, UpArrow, and ESC followed by another byte than `[`
Keyboard ==
  {l \o <<NL>> : l \in {L_history_a_f, L_history_a_nf, L_history_r_f, L_history_r_f_w_g,
                        L_history_r_f_1, L_history_x, L_history, L_history_w_g_1,
                        L_exit, L_exit_pipe_quote, L_pipeline, L_echo_gt, L_cd_n,
                        L_zz_pipe_empty, L_exit_pipe_p, L_exit_pipe_echo_gt,
                        L_echo_long_pipe_p, L_pwd_pipe_p}}
  \cup {<<"x", B_04>>, <<"e", "x", TAB, CR>>, <<B_1B, "[", "A">>, <<B_1B, "O", "P">>}

ECHO == "ECHO"
ICANON == "ICANON"

\* The State and the process environment the builtins act on
Shell(cf, h, pos, dir, files) ==
  [control_flow |-> cf, history |-> h, history_append_position |-> pos,
   cwd |-> dir, fs |-> files]

Sh == Shell(control_flow, history, history_append_position, cwd, fs)

NoShell == Shell("", <<>>, 0, <<>>, EmptyFs)

Event(op, name, args, status, before) ==
  [op |-> op, name |-> name, args |-> args, status |-> status, before |-> before]

NoEvent == Event("none", <<>>, <<>>, "", NoShell)

\* The variables the splitter and the redirection parser have on their own
SplitIdle ==
  /\ sp_in = <<>>
  /\ sp_out = Pending
  /\ sp_at = Pending

RedirIdle ==
  /\ rd_in = <<>>
  /\ rd_out = Pending

HistIdle ==
  /\ hist_in = <<>>
  /\ hist_out = Pending

EditIdle ==
  /\ editor = Pending
  /\ screen = Pending
  /\ key_log = <<>>
  /\ keys_read = 0

PureIdle ==
  /\ SplitIdle
  /\ RedirIdle
  /\ HistIdle
  /\ EditIdle

\* State::new and main down to the first prompt: the snapshot is taken and
\* ECHO and ICANON are cleared
Init ==
  /\ pc = "read"
  /\ original_termios = {ECHO, ICANON, "ISIG"}
  /\ termios = original_termios \ {ECHO, ICANON}
  /\ control_flow = "Repl"
  /\ history = <<>>
  /\ history_append_position = 0
  /\ cwd = Root
  /\ fs = EmptyFs
  /\ input = <<>>
  /\ commands = <<>>
  /\ stdin = 0
  /\ pipe_reader = 0
  /\ pipe_writer = 0
  /\ pipes_created = 0
  /\ pipe_fill = <<>>
  /\ child_handles = <<>>
  /\ stages = <<>>
  /\ ev = NoEvent
  /\ PureIdle

\* A variant of PushHistory: the accepted line is not recorded
PushHistory_Dropped(h, line) == h

\* The accepted line goes to the history before the pipeline runs
PushHistory(h, line) == Append(h, line)

\* The prompt, handle_input returning a line, and main down to the pipeline
\* loop: the line is split on `|` and the first pipe is made
ReadLine ==
  /\ pc = "read"
  /\ Len(history) < MaxHistory
  /\ \E bytes \in Keyboard :
       LET ed == handle_input(bytes)
       IN /\ ed.at = "done"
          /\ input' = ed.input
          /\ history' = PushHistory(history, ed.input)
          /\ commands' = SplitPipe(ed.input)
  /\ pipe_reader' = 1
  /\ pipe_writer' = 1
  /\ pipes_created' = 1
  /\ pipe_fill' = <<0>>
  /\ child_handles' = <<>>
  /\ stdin' = 0
  /\ stages' = <<>>
  /\ pc' = "exec"
  /\ ev' = Event("read", <<>>, <<>>, "", NoShell)
  /\ UNCHANGED <<termios, original_termios, control_flow, history_append_position, cwd, fs>>
  /\ UNCHANGED pure_vars

\* handle_input aborts: todo!() in read_key or in the match on the key
ReadAborts ==
  /\ pc = "read"
  /\ \E bytes \in Keyboard : handle_input(bytes).at = "panic"
  /\ pc' = "panicked"
  /\ ev' = Event("read", <<>>, <<>>, "panic", NoShell)
  /\ UNCHANGED <<termios, original_termios, control_flow, history, history_append_position,
                 cwd, fs, input, commands, stdin, pipe_reader, pipe_writer, pipes_created, pipe_fill,
                 child_handles, stages>>
  /\ UNCHANGED pure_vars

\* The segment commands.next() returns and what main computes from it
Seg == Head(commands)
SegSplit == split(Seg)
SegArgs == SegSplit.val
SegRedir == parse_reditections(Tail(SegArgs), cwd, fs)
SegKind == CommandKind_parse(SegArgs[1])
PeekSome == Tail(commands) # <<>>

\* A variant of StdoutFor: a file redirection is kept before a pipe
StdoutFor_FileWins(peek_some, writer, own) ==
  IF peek_some /\ own.kind # "File" THEN PipeSink(writer) ELSE own

\* stdout = if commands.peek().is_some() { Pipe(pipe_writer) } else { stdout }
StdoutFor(peek_some, writer, own) == IF peek_some THEN PipeSink(writer) ELSE own

SegStdout == StdoutFor(PeekSome, pipe_writer, SegRedir.stdout)

HasCommand ==
  /\ pc = "exec"
  /\ commands # <<>>
  /\ SegSplit.ok
  /\ SegArgs # <<>>

\* The end of an iteration that ran a command: the command is recorded, the
\* next command reads the pipe main held, and a new pipe is made
Launched ==
  /\ commands' = Tail(commands)
  /\ stages' = Append(stages, [kind |-> SegKind.kind, name |-> SegKind.name, stdin |-> stdin,
                               stdout |-> SegStdout, own |-> SegRedir.stdout,
                               last |-> ~PeekSome])
  /\ stdin' = pipe_reader
  /\ pipe_reader' = pipes_created + 1
  /\ pipe_writer' = pipes_created + 1
  /\ pipes_created' = pipes_created + 1
  /\ pc' = "exec"

\* split fails on the segment: `Syntax error`, and the loop is left
ExecSyntaxError ==
  /\ pc = "exec"
  /\ commands # <<>>
  /\ ~SegSplit.ok
  /\ pc' = "reap"
  /\ commands' = Tail(commands)
  /\ ev' = Event("syntax", <<>>, <<>>, "Syntax error", Sh)
  /\ UNCHANGED <<termios, original_termios, control_flow, history, history_append_position,
                 cwd, fs, input, stdin, pipe_reader, pipe_writer, pipes_created, pipe_fill,
                 child_handles, stages>>
  /\ UNCHANGED pure_vars

\* The segment has no word: continue
ExecEmpty ==
  /\ pc = "exec"
  /\ commands # <<>>
  /\ SegSplit.ok
  /\ SegArgs = <<>>
  /\ commands' = Tail(commands)
  /\ ev' = Event("empty", <<>>, <<>>, "", NoShell)
  /\ UNCHANGED <<pc, termios, original_termios, control_flow, history,
                 history_append_position, cwd, fs, input, stdin, pipe_reader, pipe_writer,
                 pipes_created, pipe_fill, child_handles, stages>>
  /\ UNCHANGED pure_vars

\* Command::from_split returns Err: todo!("handle command parsing error")
ExecRedirectAborts ==
  /\ HasCommand
  /\ ~SegRedir.ok
  /\ fs' = SegRedir.fs
  /\ pc' = "panicked"
  /\ commands' = Tail(commands)
  /\ ev' = Event("redirect", <<>>, <<>>, "panic", NoShell)
  /\ UNCHANGED <<termios, original_termios, control_flow, history, history_append_position,
                 cwd, input, stdin, pipe_reader, pipe_writer, pipes_created, pipe_fill,
                 child_handles, stages>>
  /\ UNCHANGED pure_vars

\* The bytes a pipe holds before a write into it blocks
PipeCapacity == 4

\* The bytes pipe n can still take
PipeRoom(fill, n) == PipeCapacity - fill[n]

\* A write of more bytes than the pipe has room for waits for a reader
WriteBlocks(fill, sink, data) == sink.kind = "Pipe" /\ Len(data) > PipeRoom(fill, sink.id)

\* The pipes after a write that did not block
PipeWrite(fill, sink, data) ==
  IF sink.kind = "Pipe" THEN [fill EXCEPT ![sink.id] = @ + Len(data)] ELSE fill

\* The shell after builtin.run returned r
BuiltinReturned(r) ==
  /\ control_flow' = r.sh.control_flow
  /\ history' = r.sh.history
  /\ history_append_position' = r.sh.history_append_position
  /\ cwd' = r.sh.cwd
  /\ fs' = r.sh.fs
  /\ ev' = Event("builtin", SegKind.name, SegRedir.args, r.status, Sh)
  /\ IF r.status = "panic"
     THEN /\ pc' = "panicked"
          /\ commands' = Tail(commands)
          /\ UNCHANGED <<stdin, pipe_reader, pipe_writer, pipes_created, pipe_fill, stages>>
     ELSE /\ Launched
          /\ pipe_fill' = Append(PipeWrite(pipe_fill, SegStdout, r.out), 0)

\* Command::run on a builtin: it runs in the shell, to its end
ExecBuiltin ==
  /\ HasCommand
  /\ SegRedir.ok
  /\ SegKind.kind = "Builtin"
  /\ ~WriteBlocks(pipe_fill, SegStdout,
                  Builtin_run(SegKind.name, [Sh EXCEPT !.fs = SegRedir.fs], SegStdout,
                              SegRedir.stderr, SegRedir.args).out)
  /\ BuiltinReturned(Builtin_run(SegKind.name, [Sh EXCEPT !.fs = SegRedir.fs], SegStdout,
                                 SegRedir.stderr, SegRedir.args))
  /\ UNCHANGED <<termios, original_termios, input, child_handles>>
  /\ UNCHANGED pure_vars

\* Command::run on a builtin whose output does not fit the pipe: the builtin
\* runs in the shell and its write waits for room, while the read end of the
\* pipe is pipe_reader, which main hands to the next command only after run
\* has returned (main.rs:462-465); the pipe stays full and main stays in the write
ExecBuiltinBlocks ==
  /\ HasCommand
  /\ SegRedir.ok
  /\ SegKind.kind = "Builtin"
  /\ WriteBlocks(pipe_fill, SegStdout,
                 Builtin_run(SegKind.name, [Sh EXCEPT !.fs = SegRedir.fs], SegStdout,
                             SegRedir.stderr, SegRedir.args).out)
  /\ pc' = "blocked"
  /\ fs' = SegRedir.fs
  /\ pipe_fill' = [pipe_fill EXCEPT ![SegStdout.id] = PipeCapacity]
  /\ commands' = Tail(commands)
  /\ ev' = Event("builtin", SegKind.name, SegRedir.args, "blocked", Sh)
  /\ UNCHANGED <<termios, original_termios, control_flow, history, history_append_position,
                 cwd, input, stdin, pipe_reader, pipe_writer, pipes_created, child_handles,
                 stages>>
  /\ UNCHANGED pure_vars

\* Command::run on a program: the child is spawned and runs beside the shell
ExecSpawn ==
  /\ HasCommand
  /\ SegRedir.ok
  /\ SegKind.kind = "Program"
  /\ fs' = SegRedir.fs
  /\ child_handles' = Append(child_handles, [name |-> SegKind.name, state |-> "running"])
  /\ ev' = Event("spawn", SegKind.name, SegRedir.args, "ok", NoShell)
  /\ Launched
  /\ pipe_fill' = Append(pipe_fill, 0)
  /\ UNCHANGED <<termios, original_termios, control_flow, history, history_append_position,
                 cwd, input>>
  /\ UNCHANGED pure_vars

\* cmd.spawn() returns an error: expect("spawn") aborts
ExecSpawnFails ==
  /\ HasCommand
  /\ SegRedir.ok
  /\ SegKind.kind = "Program"
  /\ fs' = SegRedir.fs
  /\ pc' = "panicked"
  /\ commands' = Tail(commands)
  /\ ev' = Event("spawn", SegKind.name, SegRedir.args, "panic", NoShell)
  /\ UNCHANGED <<termios, original_termios, control_flow, history, history_append_position,
                 cwd, input, stdin, pipe_reader, pipe_writer, pipes_created, pipe_fill,
                 child_handles, stages>>
  /\ UNCHANGED pure_vars

\* Command::run on a name that is no builtin and no program
ExecNotFound ==
  /\ HasCommand
  /\ SegRedir.ok
  /\ SegKind.kind = "NotFound"
  /\ fs' = WriteSink(SegRedir.fs, SegRedir.stderr,
                     SegKind.name \o <<":", " ", "c", "o", "m", "m", "a", "n", "d", " ", "n", "o", "t", " ", "f", "o", "u", "n", "d">> \o <<NL>>)
  /\ ev' = Event("notfound", SegKind.name, SegRedir.args, "command not found", NoShell)
  /\ Launched
  /\ pipe_fill' = Append(pipe_fill, 0)
  /\ UNCHANGED <<termios, original_termios, control_flow, history, history_append_position,
                 cwd, input, child_handles>>
  /\ UNCHANGED pure_vars

\* commands.next() returns None: the loop over the segments ends
PipelineDone ==
  /\ pc = "exec"
  /\ commands = <<>>
  /\ pc' = "reap"
  /\ ev' = NoEvent
  /\ UNCHANGED <<termios, original_termios, control_flow, history, history_append_position,
                 cwd, fs, input, commands, stdin, pipe_reader, pipe_writer, pipes_created, pipe_fill,
                 child_handles, stages>>
  /\ UNCHANGED pure_vars

\* A child of the shell ends by itself
ChildExits ==
  /\ pc \in {"exec", "reap", "reap_rest"}
  /\ \E i \in 1..Len(child_handles) :
       /\ child_handles[i].state = "running"
       /\ child_handles' = [child_handles EXCEPT ![i].state = "exited"]
  /\ ev' = NoEvent
  /\ UNCHANGED <<pc, termios, original_termios, control_flow, history,
                 history_append_position, cwd, fs, input, commands, stdin, pipe_reader,
                 pipe_writer, pipes_created, pipe_fill, stages>>
  /\ UNCHANGED pure_vars

\* child_handles.pop() returns None: nothing to wait on
ReapNothing ==
  /\ pc = "reap"
  /\ child_handles = <<>>
  /\ pc' = "loop"
  /\ ev' = NoEvent
  /\ UNCHANGED <<termios, original_termios, control_flow, history, history_append_position,
                 cwd, fs, input, commands, stdin, pipe_reader, pipe_writer, pipes_created, pipe_fill,
                 child_handles, stages>>
  /\ UNCHANGED pure_vars

\* A variant of WaitReturns: the wait returns at once
WaitReturns_AtOnce(child) == TRUE

\* child.wait() returns once the child has ended
WaitReturns(child) == child.state = "exited"

\* child_handles.pop() and child.wait(): returns once the last child has ended
WaitLast ==
  /\ pc = "reap"
  /\ child_handles # <<>>
  /\ WaitReturns(child_handles[Len(child_handles)])
  /\ child_handles' = SubSeq(child_handles, 1, Len(child_handles) - 1)
  /\ pc' = "reap_rest"
  /\ ev' = Event("wait", child_handles[Len(child_handles)].name, <<>>,
                 child_handles[Len(child_handles)].state, NoShell)
  /\ UNCHANGED <<termios, original_termios, control_flow, history, history_append_position,
                 cwd, fs, input, commands, stdin, pipe_reader, pipe_writer, pipes_created, pipe_fill,
                 stages>>
  /\ UNCHANGED pure_vars

\* One pass of `for mut child in child_handles`: kill, then wait
KillAndWait ==
  /\ pc = "reap_rest"
  /\ child_handles # <<>>
  /\ child_handles' = Tail(child_handles)
  /\ ev' = Event("kill", child_handles[1].name, <<>>, child_handles[1].state, NoShell)
  /\ UNCHANGED <<pc, termios, original_termios, control_flow, history,
                 history_append_position, cwd, fs, input, commands, stdin, pipe_reader,
                 pipe_writer, pipes_created, pipe_fill, stages>>
  /\ UNCHANGED pure_vars

\* The earlier children are all reaped
ReapDone ==
  /\ pc = "reap_rest"
  /\ child_handles = <<>>
  /\ pc' = "loop"
  /\ ev' = NoEvent
  /\ UNCHANGED <<termios, original_termios, control_flow, history, history_append_position,
                 cwd, fs, input, commands, stdin, pipe_reader, pipe_writer, pipes_created, pipe_fill,
                 child_handles, stages>>
  /\ UNCHANGED pure_vars

\* while let ControlFlow::Repl = &control_flow: the next prompt
NextPrompt ==
  /\ pc = "loop"
  /\ control_flow = "Repl"
  /\ pc' = "read"
  /\ ev' = NoEvent
  /\ UNCHANGED <<termios, original_termios, control_flow, history, history_append_position,
                 cwd, fs, input, commands, stdin, pipe_reader, pipe_writer, pipes_created, pipe_fill,
                 child_handles, stages>>
  /\ UNCHANGED pure_vars

\* The loop is left: tcsetattr with the snapshot, and main returns
RestoreAndExit ==
  /\ pc = "loop"
  /\ control_flow = "Exit"
  /\ termios' = original_termios
  /\ pc' = "exited"
  /\ ev' = NoEvent
  /\ UNCHANGED <<original_termios, control_flow, history, history_append_position,
                 cwd, fs, input, commands, stdin, pipe_reader, pipe_writer, pipes_created, pipe_fill,
                 child_handles, stages>>
  /\ UNCHANGED pure_vars

Next ==
  \/ ReadLine
  \/ ReadAborts
  \/ ExecSyntaxError
  \/ ExecEmpty
  \/ ExecRedirectAborts
  \/ ExecBuiltin
  \/ ExecBuiltinBlocks
  \/ ExecSpawn
  \/ ExecSpawnFails
  \/ ExecNotFound
  \/ PipelineDone
  \/ ChildExits
  \/ ReapNothing
  \/ WaitLast
  \/ KillAndWait
  \/ ReapDone
  \/ NextPrompt
  \/ RestoreAndExit

Spec == Init /\ [][Next]_vars

----------------------------------------------------------------------------
(* Properties of the shell *)

\* C1: on every path by which the process stops after raw mode was entered
\* (exit, Ctrl-D, an abort while reading keys, parsing redirections or
\* spawning), the terminal attributes are those of the snapshot.
C1_TerminalRestoredOnEveryStop ==
  pc \in {"exited", "panicked"} => termios = original_termios

\* The last step ran the builtin `history` with -a and a file as its arguments
RanHistoryAppend ==
  /\ ev.op = "builtin"
  /\ ev.name = TO_STRING[6]
  /\ Len(ev.args) = 2
  /\ ev.args[1] = <<"-", "a">>

\* C2: after every successful `history -a <file>`, history_append_position
\* equals len(history).
C2_AppendLeavesPositionAtEnd ==
  (RanHistoryAppend /\ ev.status = "ok") => history_append_position = Len(history)

\* C3: in every reachable state 0 <= history_append_position <= len(history).
C3_AppendPositionInRange ==
  /\ 0 <= history_append_position
  /\ history_append_position <= Len(history)

\* C3 witness: a second `history -a` has run with success after the history
\* grew, and it left the position strictly inside the history.
C3_Witness ==
  /\ RanHistoryAppend
  /\ ev.status = "ok"
  /\ ev.before.history_append_position > 0
  /\ 0 < history_append_position
  /\ history_append_position < Len(history)

\* The lines that leave the file f, the history entries already there and
\* the position alone, but for `history -a f` itself
QuietLines == {L_history_a_f, L_history_x, L_history, L_cd_n, L_zz_pipe_empty}

\* C4: in a session of `history -a f` calls and lines that touch neither f nor
\* the history, every entry is in f exactly once and in history order after
\* each successful `history -a f`: the lines of f are the history.
C4_EachEntryAppendedOnce ==
  ( /\ RanHistoryAppend
    /\ ev.status = "ok"
    /\ ev.args[2] = <<"f">>
    /\ \A i \in 1..Len(history) : history[i] \in QuietLines )
  => Lines(fs[Abs(Root, <<"f">>)]) = history

\* C5: when a builtin returns an error, control_flow, history and
\* history_append_position are what they were before the invocation.
C5_BuiltinErrorLeavesStateUnchanged ==
  (ev.op = "builtin" /\ ev.status = "err") =>
    /\ control_flow = ev.before.control_flow
    /\ history = ev.before.history
    /\ history_append_position = ev.before.history_append_position

\* C6: when the splitter fails on a segment of the line, no command of the
\* line has taken effect: none has run, no child is spawned, and control_flow
\* is Repl as it was when the line was read.
C6_SyntaxErrorAbortsWholeLine ==
  ev.op = "syntax" =>
    /\ stages = <<>>
    /\ child_handles = <<>>
    /\ control_flow = "Repl"

\* C9: the first command of a line inherits stdin; every later command reads
\* the pipe that the command before it writes; a command of a segment that
\* is not the last writes a pipe whatever its own redirection, the pipes of
\* different commands differ, and the command of the last segment writes
\* where its own redirection says.
C9_StagesAreChained ==
  \A j \in 1..Len(stages) :
    /\ (j = 1) => stages[j].stdin = 0
    /\ (j > 1) => /\ stages[j].stdin # 0
                  /\ stages[j - 1].stdout = PipeSink(stages[j].stdin)
    /\ ~stages[j].last => stages[j].stdout.kind = "Pipe"
    /\ stages[j].last => stages[j].stdout = stages[j].own
    /\ \A k \in 1..Len(stages) :
         (k # j /\ stages[k].stdout.kind = "Pipe") => stages[k].stdout # stages[j].stdout

\* C9 witness: a line of three commands has run; the first has a file
\* redirection and writes a pipe, and the last appends to its file.
C9_Witness ==
  /\ Len(stages) = 3
  /\ stages[1].own.kind = "File"
  /\ stages[1].stdout.kind = "Pipe"
  /\ stages[2].stdin = stages[1].stdout.id
  /\ stages[3].stdin = stages[2].stdout.id
  /\ stages[3].last
  /\ stages[3].stdout.kind = "File"

\* The last step ran `history` with -r together with -w, -a or a number
RanHistoryReadCombined ==
  /\ ev.op = "builtin"
  /\ ev.name = TO_STRING[6]
  /\ \E i \in 1..Len(ev.args) : ev.args[i] = <<"-", "r">>
  /\ \E i \in 1..Len(ev.args) :
       ev.args[i] \in {<<"-", "w">>, <<"-", "a">>} \/ ParsesAsUsize(ev.args[i])

\* C10: `history` with -r and -w, -a or a number fails and does nothing: the
\* history, the position and the files are what they were.
C10_ReadCombinedFails ==
  RanHistoryReadCombined =>
    /\ ev.status = "err"
    /\ history = ev.before.history
    /\ history_append_position = ev.before.history_append_position
    /\ fs = ev.before.fs

\* C12: every accepted line is appended to the history before any command of
\* the line is executed: while no command of the line has run the line is the
\* last entry, and every builtin run from the line finds the line among the
\* entries.
C12_LineInHistoryBeforeItRuns ==
  /\ (pc = "exec" /\ stages = <<>>) =>
       (history # <<>> /\ history[Len(history)] = input)
  /\ ev.op = "builtin" =>
       \E i \in 1..Len(ev.before.history) : ev.before.history[i] = input

\* C12 witness: an `exit` line (typed, or returned by Ctrl-D) ran the builtin
\* `exit` with the line already the last entry of the history, after the line
\* `history`.
C12_Witness ==
  /\ ev.op = "builtin"
  /\ ev.name = TO_STRING[1]
  /\ input = TO_STRING[1]
  /\ Len(ev.before.history) = 2
  /\ ev.before.history[1] = L_history
  /\ ev.before.history[2] = TO_STRING[1]

\* How far main is from its end: the place in the loop, the segments still to
\* take, the children still to reap and the children still running
PlaceRank(p) ==
  CASE p = "exec" -> 4
    [] p = "reap" -> 3
    [] p = "reap_rest" -> 2
    [] p = "loop" -> 1
    [] OTHER -> 0

StepsLeft(p, cmds, kids) ==
  100 * PlaceRank(p) + 10 * Len(cmds) + 2 * Len(kids)
    + Cardinality({i \in 1..Len(kids) : kids[i].state = "running"})

C17_OnePipePerAdjacentPair ==
  (pc = "reap" /\ stages # <<>> /\ Len(stages) = Len(SplitPipe(input))) =>
    pipes_created = Len(stages) - 1

\* The names of the programs spawned for the line, in the order of spawning
RECURSIVE SpawnedOf(_)
SpawnedOf(log) ==
  IF log = <<>> THEN <<>>
  ELSE (IF log[1].kind = "Program" THEN <<log[1].name>> ELSE <<>>) \o SpawnedOf(Tail(log))

\* C18: the first wait is on the last spawned child and returns only when
\* that child has exited; an earlier child is killed and waited on only after
\* that; no child is left when the shell goes on to the next prompt; and a
\* line that spawned no child waits on nothing.
C18_LastChildIsWaitedFirst ==
  /\ [](ev.op = "wait" =>
          /\ SpawnedOf(stages) # <<>>
          /\ ev.name = SpawnedOf(stages)[Len(SpawnedOf(stages))]
          /\ ev.status = "exited"
          /\ Len(child_handles) = Len(SpawnedOf(stages)) - 1)
  /\ [](ev.op = "kill" => (pc = "reap_rest" /\ Len(child_handles) < Len(SpawnedOf(stages)) - 1))
  /\ [][ev'.op = "kill" => (pc = "reap_rest" /\ ev'.name = child_handles[1].name)]_vars
  /\ [][(pc # "reap_rest" /\ pc' = "reap_rest") => ev'.op = "wait"]_vars
  /\ [](pc \in {"loop", "read", "exited"} => child_handles = <<>>)
  /\ [][(pc = "reap" /\ SpawnedOf(stages) = <<>>) => ev'.op \notin {"wait", "kill"}]_vars

\* C18 witness: in `p > f | zz | q >> g` the shell has waited on q and has
\* then killed p, which was still running.
C18_Witness ==
  /\ input = L_pipeline
  /\ pc = "reap_rest"
  /\ ev.op = "kill"
  /\ ev.name = search(<<"p">>).v
  /\ ev.status = "running"
  /\ child_handles = <<>>

\* C21: a builtin of a non-last stage never leaves the shell waiting in a
\* write into a pipe: the shell is never blocked on a full pipe whose read end
\* it holds itself, so that the line comes back to the prompt once its
\* children have ended.
C21_BuiltinNeverBlocksOnPipe ==
  pc # "blocked"

\* A builtin of a non-last stage whose output fits the pipe returns, and its
\* output waits in the pipe for the next command
C21_SmallOutputPasses ==
  (ev.op = "builtin" /\ ev.status = "ok" /\ Len(stages) >= 1 /\ ~stages[Len(stages)].last
     /\ stages[Len(stages)].kind = "Builtin") =>
    pipe_fill[stages[Len(stages)].stdout.id] <= PipeCapacity

\* The shell variables while the splitter or the redirection parser is
\* checked on its own
ShellIdle ==
  /\ pc = "idle"
  /\ original_termios = {}
  /\ termios = {}
  /\ control_flow = "Repl"
  /\ history = <<>>
  /\ history_append_position = 0
  /\ cwd = Root
  /\ fs = EmptyFs
  /\ input = <<>>
  /\ commands = <<>>
  /\ stdin = 0
  /\ pipe_reader = 0
  /\ pipe_writer = 0
  /\ pipes_created = 0
  /\ pipe_fill = <<>>
  /\ child_handles = <<>>
  /\ stages = <<>>
  /\ ev = NoEvent

----------------------------------------------------------------------------
(* The splitter on its own: every string over SplitAlphabet up to         *)
(* MaxSplitLen characters is split once.                                   *)

MaxSplitLen == 4
SplitAlphabet == {"a", SP, SQ, DQ, BSL, NL}

InitSplit ==
  /\ sp_in \in SeqsUpTo(SplitAlphabet, MaxSplitLen)
  /\ sp_out = Pending
  /\ sp_at = Pending
  /\ RedirIdle
  /\ HistIdle
  /\ EditIdle
  /\ ShellIdle

CallSplit ==
  /\ sp_out = Pending
  /\ sp_out' = split(sp_in)
  /\ UNCHANGED <<sp_in, sp_at, redir_vars, hist_vars, edit_vars>>
  /\ UNCHANGED shell_vars

NextSplit == CallSplit

SpecSplit == InitSplit /\ [][NextSplit]_vars

\* Whether s ends inside a single- or double-quoted region: a scan that
\* tracks only the quoting context ("none", "single", "double") and whether
\* the previous character was an escaping backslash outside quotes.
RECURSIVE EndsInQuote(_, _, _, _)
EndsInQuote(s, i, ctx, esc) ==
  IF i > Len(s) THEN ctx # "none"
  ELSE IF esc THEN EndsInQuote(s, i + 1, "none", FALSE)
  ELSE IF ctx = "none" THEN
         IF s[i] = SQ THEN EndsInQuote(s, i + 1, "single", FALSE)
         ELSE IF s[i] = DQ THEN EndsInQuote(s, i + 1, "double", FALSE)
         ELSE EndsInQuote(s, i + 1, "none", s[i] = BSL)
  ELSE IF ctx = "single" THEN
         EndsInQuote(s, i + 1, IF s[i] = SQ THEN "none" ELSE "single", FALSE)
  ELSE EndsInQuote(s, i + 1, IF s[i] = DQ THEN "none" ELSE "double", FALSE)

\* C7: split fails if and only if the input ends inside a single- or
\* double-quoted region; every other input, one ending right after a
\* backslash included, is accepted.
C7_SplitFailsIffUnterminatedQuote ==
  sp_out # Pending =>
    /\ (sp_out = ParseError) <=> EndsInQuote(sp_in, 1, "none", FALSE)
    /\ (sp_out # ParseError) => sp_out.ok

\* C7 witness: an input ending right after a backslash that follows a closed
\* quoted region has been split and accepted.
C7_Witness ==
  /\ sp_in = <<SQ, SQ, BSL>>
  /\ sp_out = Ok(<<<<BSL>>>>)
----------------------------------------------------------------------------
(* The redirection parser on its own: every argument vector over          *)
(* RedirTokens up to MaxArgs words is parsed once, in the root directory  *)
(* of an empty file system.                                                *)

MaxArgs == 3
RedirTokens ==
  {<<">">>, <<"1", ">">>, <<"2", ">">>, <<">", ">">>, <<"1", ">", ">">>, <<"2", ">", ">">>,
   <<"x">>, <<"f">>, <<"n", "/", "f">>}

InitRedir ==
  /\ rd_in \in SeqsUpTo(RedirTokens, MaxArgs)
  /\ rd_out = Pending
  /\ SplitIdle
  /\ HistIdle
  /\ EditIdle
  /\ ShellIdle

CallRedir ==
  /\ rd_out = Pending
  /\ rd_out' = parse_reditections(rd_in, Root, EmptyFs)
  /\ UNCHANGED <<rd_in, split_vars, hist_vars, edit_vars>>
  /\ UNCHANGED shell_vars

NextRedir == CallRedir

SpecRedir == InitRedir /\ [][NextRedir]_vars

\* The six operator tokens, as the specification lists them
OperatorTokens ==
  {<<">">>, <<"1", ">">>, <<"2", ">">>, <<">", ">">>, <<"1", ">", ">">>, <<"2", ">", ">">>}

\* Token i of A is recognised as an operator when it is an operator token
\* that the operator before it has not consumed as its file name
RECURSIVE Recognised(_, _)
Recognised(A, i) ==
  /\ A[i] \in OperatorTokens
  /\ (i = 1 \/ ~Recognised(A, i - 1))

KeptIndices(A) ==
  {i \in 1..Len(A) : ~Recognised(A, i) /\ (i = 1 \/ ~Recognised(A, i - 1))}

\* A without its recognised operators and the token after each, in order
Residual(A) ==
  LET K == KeptIndices(A)
  IN [j \in 1..Cardinality(K) |->
        A[CHOOSE i \in K : Cardinality({k \in K : k <= i}) = j]]

\* C8: when the redirection parser succeeds, the residual argument vector is
\* the input without every recognised operator token and the token right
\* after it, the other tokens in their order; when a recognised operator is
\* the last token the parser fails.
C8_ResidualIsInputWithoutPairs ==
  rd_out # Pending =>
    /\ rd_out.ok => rd_out.args = Residual(rd_in)
    /\ (rd_in # <<>> /\ Recognised(rd_in, Len(rd_in))) => ~rd_out.ok

\* C8 witness: a vector whose first operator takes the token after it, itself
\* an operator token, as its file name has been parsed with success, and only
\* the plain word after the pair is kept.
C8_Witness ==
  /\ rd_out # Pending
  /\ rd_out.ok
  /\ Len(rd_in) = 3
  /\ rd_in[1] = <<"2", ">", ">">>
  /\ rd_out.args = <<<<"x">>>>

----------------------------------------------------------------------------
(* The history builtin on its own: from a history in memory, `history -w f`*)
(* with or without a number is run, and then `history -r f`, in the root   *)
(* directory of an empty file system.                                      *)

MaxEntries == 3
HistEntries == {<<>>, <<"a">>, <<"b">>}
HistNumbers == {NoNumber} \cup {Some(k) : k \in 0..(MaxEntries + 1)}

\* The arguments of `history -w f [n]` and of `history -r f`
WriteArgs(n) == <<<<"-", "w">>, <<"f">>>> \o (IF n.some THEN <<Decimal(n.v)>> ELSE <<>>)
ReadArgs == <<<<"-", "r">>, <<"f">>>>

InitHist ==
  /\ hist_in \in [H : SeqsUpTo(HistEntries, MaxEntries), n : HistNumbers]
  /\ hist_out = [at |-> "start", status |-> "", sh |-> Shell("Repl", hist_in.H, 0, Root, EmptyFs)]
  /\ SplitIdle
  /\ RedirIdle
  /\ EditIdle
  /\ ShellIdle

\* `history -w f [n]`
CallHistoryWrite ==
  /\ hist_out.at = "start"
  /\ hist_out' = [at |-> "written",
                  status |-> Builtin__run(TO_STRING[6], hist_out.sh, WriteArgs(hist_in.n)).status,
                  sh |-> Builtin__run(TO_STRING[6], hist_out.sh, WriteArgs(hist_in.n)).sh]
  /\ UNCHANGED <<hist_in, split_vars, redir_vars, edit_vars>>
  /\ UNCHANGED shell_vars

\* `history -r f`
CallHistoryRead ==
  /\ hist_out.at = "written"
  /\ hist_out' = [at |-> "read",
                  status |-> Builtin__run(TO_STRING[6], hist_out.sh, ReadArgs).status,
                  sh |-> Builtin__run(TO_STRING[6], hist_out.sh, ReadArgs).sh]
  /\ UNCHANGED <<hist_in, split_vars, redir_vars, edit_vars>>
  /\ UNCHANGED shell_vars

NextHist ==
  \/ CallHistoryWrite
  \/ CallHistoryRead

SpecHist == InitHist /\ [][NextHist]_vars

\* The entries `history -w f [n]` selects: the last min(n, len(H)) entries
\* of H, all of H without a number
Selected(H, n) ==
  IF n.some /\ n.v < Len(H) THEN SubSeq(H, Len(H) - n.v + 1, Len(H)) ELSE H

\* C11: `history -w f [n]` followed by `history -r f` appends to the history
\* in memory exactly the entries that -w selected, in order.
C11_WriteThenReadAppendsSelection ==
  hist_out.at = "read" => hist_out.sh.history = hist_in.H \o Selected(hist_in.H, hist_in.n)

\* The same round trip where -w selected at least one entry
C11_NonEmptySelectionRoundTrips ==
  (hist_out.at = "read" /\ Selected(hist_in.H, hist_in.n) # <<>>)
    => hist_out.sh.history = hist_in.H \o Selected(hist_in.H, hist_in.n)

----------------------------------------------------------------------------
(* The line editor on its own: handle_input reads up to MaxKeys keys, one  *)
(* key a step, and the terminal acts on what each arm prints.  The line is *)
(* shorter than the screen is wide.                                        *)

MaxKeys == 4

\* The bytes of one key: the characters `e`, `z` and `a`, Tab, Backspace, the
\* arrows, Delete, Ctrl-L, Ctrl-D, Newline, ESC followed by `O`, and ESC `[` `Z`
KeyBytes ==
  {<<"e">>, <<"z">>, <<"a">>, <<TAB>>, <<B_7F>>, <<B_0C>>, <<B_04>>, <<NL>>,
   <<B_1B, "[", "A">>, <<B_1B, "[", "B">>, <<B_1B, "[", "C">>, <<B_1B, "[", "D">>,
   <<B_1B, "[", "3">>, <<B_1B, "O">>, <<B_1B, "[", "Z">>}

\* The terminal: the column of the cursor, counted from the left margin, and
\* whether insert mode is set
Screen(col, irm) == [col |-> col, irm |-> irm]

\* The index of the final byte of the control sequence whose parameters start
\* at bytes[i]
RECURSIVE CsiEnd(_, _)
CsiEnd(bytes, i) ==
  IF bytes[i] \in {"0", "1", "2", "3", "4", "5", "6", "7", "8", "9", ";"}
  THEN CsiEnd(bytes, i + 1) ELSE i

\* What a control sequence does to the terminal
CsiEffect(scr, params, final) ==
  CASE final = "h" /\ params = <<"4">> -> Screen(scr.col, TRUE)
    [] final = "l" /\ params = <<"4">> -> Screen(scr.col, FALSE)
    [] final = "C" -> Screen(scr.col + 1, scr.irm)
    [] final = "D" -> Screen(IF scr.col > 0 THEN scr.col - 1 ELSE 0, scr.irm)
    [] final = "H" -> Screen(0, scr.irm)
    [] OTHER -> scr                               \* CSI 1P and CSI 0J move nothing

\* The bytes the terminal does not print
ControlBytes == {B_1B, B_08, B_07, NL}

\* The index after the run of printed characters that starts at bytes[i]
RunEnd(bytes, i) ==
  IF \E j \in i..Len(bytes) : bytes[j] \in ControlBytes
  THEN CHOOSE j \in i..Len(bytes) :
         /\ bytes[j] \in ControlBytes
         /\ \A h \in i..(j - 1) : bytes[h] \notin ControlBytes
  ELSE Len(bytes) + 1

\* The terminal after the bytes from bytes[i] on; output processing is left
\* on, a line feed takes the cursor to the left margin of the next line, and
\* each printed character moves the cursor one column right
RECURSIVE Terminal(_, _, _)
Terminal(scr, bytes, i) ==
  IF i > Len(bytes) THEN scr
  ELSE IF bytes[i] = B_1B
  THEN Terminal(CsiEffect(scr, SubSeq(bytes, i + 2, CsiEnd(bytes, i + 2) - 1),
                          bytes[CsiEnd(bytes, i + 2)]),
                bytes, CsiEnd(bytes, i + 2) + 1)
  ELSE IF bytes[i] = B_08
  THEN Terminal(Screen(IF scr.col > 0 THEN scr.col - 1 ELSE 0, scr.irm), bytes, i + 1)
  ELSE IF bytes[i] = B_07 THEN Terminal(scr, bytes, i + 1)
  ELSE IF bytes[i] = NL THEN Terminal(Screen(0, scr.irm), bytes, i + 1)
  ELSE Terminal(Screen(scr.col + RunEnd(bytes, i) - i, scr.irm), bytes, RunEnd(bytes, i))

\* A key read: the key, the editor before it and what its arm printed
KeyEvent(key, before, out) == [key |-> key, before |-> before, out |-> out]

\* The prompt is printed and handle_input starts
InitEdit ==
  /\ editor = Editor(<<>>, 0, 0, "editing")
  /\ screen = Terminal(Screen(0, FALSE), Prompt, 1)
  /\ key_log = <<>>
  /\ keys_read = 0
  /\ SplitIdle
  /\ RedirIdle
  /\ HistIdle
  /\ ShellIdle

\* One pass of the loop of handle_input: a key is read and its arm runs
ReadKey ==
  /\ editor.at = "editing"
  /\ keys_read < MaxKeys
  /\ \E bytes \in KeyBytes :
       /\ editor' = KeyStep(editor, read_key(bytes, 1))
       /\ screen' = Terminal(screen, KeyOutput(editor, read_key(bytes, 1)), 1)
       /\ key_log' = <<KeyEvent(read_key(bytes, 1).key, editor,
                                KeyOutput(editor, read_key(bytes, 1)))>>
                        \o SubSeq(key_log, 1, IF key_log = <<>> THEN 0 ELSE 1)
  /\ keys_read' = keys_read + 1
  /\ UNCHANGED <<split_vars, redir_vars, hist_vars>>
  /\ UNCHANGED shell_vars

NextEdit == ReadKey

SpecEdit == InitEdit /\ [][NextEdit]_vars

PrintedList(e) == e.key = "Tab" /\ e.out # <<>> /\ e.out[1] = NL

\* The Tab arm only rang the bell with several candidates to choose from
RangBellOnSeveral(e) ==
  e.key = "Tab" /\ e.out = <<B_07>> /\ Cardinality(Completions(e.before.input)) > 1

\* C14: the candidate list is printed only by a second Tab in a row: a Tab
\* prints the list only when the key event just before it was a Tab on the
\* same buffer that rang the bell.
C14_ListOnlyOnSecondTabInARow ==
  (key_log # <<>> /\ PrintedList(key_log[1])) =>
    /\ Len(key_log) = 2
    /\ RangBellOnSeveral(key_log[2])
    /\ key_log[2].before.input = key_log[1].before.input

\* C16: no sequence of input bytes aborts the input loop: UpArrow and
\* DownArrow leave buffer and cursor as they were, and after them, as after an
\* escape sequence outside the recognised set, the editor keeps reading keys.
C16_NoKeyAbortsTheLoop ==
  /\ editor.at # "panic"
  /\ (key_log # <<>> /\ key_log[1].key \in {"UpArrow", "DownArrow"}) =>
       /\ editor.at = "editing"
       /\ editor.input = key_log[1].before.input
       /\ editor.cursor_position = key_log[1].before.cursor_position

\* C20: while the editor reads keys, the columns the terminal's cursor stands
\* from the end of the prompt equal the editor's cursor_position.
C20_ScreenCursorInStep ==
  editor.at = "editing" => screen.col - Len(Prompt) = editor.cursor_position

----------------------------------------------------------------------------
(* The splitter pass by pass: every string over SplitAlphabet up to        *)
(* MaxSplitLen characters is split, one pass of the loop a step.           *)

\* The local variables of split
SplitAt(state, words, word, i) == [state |-> state, words |-> words, word |-> word, i |-> i]

InitSplitSteps ==
  /\ sp_in \in SeqsUpTo(SplitAlphabet, MaxSplitLen)
  /\ sp_out = Pending
  /\ sp_at = SplitAt("Delimiter", <<>>, <<>>, 1)
  /\ RedirIdle
  /\ HistIdle
  /\ EditIdle
  /\ ShellIdle

\* A pass of the loop that goes on to the next character
SplitPass ==
  /\ sp_out = Pending
  /\ ~SplitStep(sp_at.state, sp_at.words, sp_at.word, CharAt(sp_in, sp_at.i)).done
  /\ sp_at' = SplitAt(SplitStep(sp_at.state, sp_at.words, sp_at.word, CharAt(sp_in, sp_at.i)).state,
                      SplitStep(sp_at.state, sp_at.words, sp_at.word, CharAt(sp_in, sp_at.i)).words,
                      SplitStep(sp_at.state, sp_at.words, sp_at.word, CharAt(sp_in, sp_at.i)).word,
                      sp_at.i + 1)
  /\ UNCHANGED <<sp_in, sp_out, redir_vars, hist_vars, edit_vars>>
  /\ UNCHANGED shell_vars

\* The pass that leaves the loop: split returns
SplitReturns ==
  /\ sp_out = Pending
  /\ SplitStep(sp_at.state, sp_at.words, sp_at.word, CharAt(sp_in, sp_at.i)).done
  /\ sp_out' = SplitStep(sp_at.state, sp_at.words, sp_at.word, CharAt(sp_in, sp_at.i)).result
  /\ UNCHANGED <<sp_in, sp_at, redir_vars, hist_vars, edit_vars>>
  /\ UNCHANGED shell_vars

NextSplitSteps ==
  \/ SplitPass
  \/ SplitReturns

SpecSplitSteps == InitSplitSteps /\ [][NextSplitSteps]_vars

\* C19: whenever the splitter is in the Delimiter state the word so far is
\* empty, so that what has been appended to a word is neither dropped at the
\* end of the input nor joined to a later word.
C19_DelimiterHasEmptyWord ==
  sp_at.state = "Delimiter" => sp_at.word = <<>>

\* The same without the backslash: on input that has no backslash the word is
\* empty in the Delimiter state
C19_EmptyWordWithoutBackslash ==
  (sp_at.state = "Delimiter" /\ \A j \in 1..Len(sp_in) : sp_in[j] # BSL) => sp_at.word = <<>>

====
